---- MODULE Spec2Model ----
(***************************************************************************)
(* MiditoBytebeat: the expression compiler (generateBytebeat), the pitch   *)
(* coefficient (pitchToCoeff) and the App component's playback machinery   *)
(* (startPlayback, the onaudioprocess callback, stopPlayback) together     *)
(* with the handlers that change the notes and the options.                *)
(*                                                                         *)
(* Number representation (JavaScript numbers are modelled by exact         *)
(* fixed-point integers):                                                  *)
(*   - Note.duration is counted in units of 1/DurDen;                      *)
(*   - accumulatedTime and noteEndTime are counted in units of 1/DurDen;   *)
(*   - Note.coeff, baseCoeff are counted in thousandths;                   *)
(*   - a coefficient printed in the expression is counted in hundredths    *)
(*     (it went through toFixed(2));                                       *)
(*   - the value of the expression is counted in hundredths;               *)
(*   - virtualTRef.current is counted in units of 1/ctx.sampleRate;        *)
(*   - an output sample is counted in units of 1/128.                      *)
(***************************************************************************)
EXTENDS Integers, Sequences, FiniteSets, TLC

VARIABLES
    notes,          \* useState<Note[]>
    noteLimit,      \* useState<number>
    transpose,      \* useState<number>
    options,        \* useState<ConverterOptions>
    expression,     \* useState("0"): the compiled expression, a sequence of segments
    fileName,       \* useState<string | null>: TRUE when a name is set
    error,          \* useState<string | null>
    isPlaying,      \* useState(false)
    audioCtx,       \* audioCtxRef.current
    processorNode,  \* processorNodeRef.current
    virtualT,       \* virtualTRef.current, in units of 1/ctx.sampleRate
    pendingStarts,  \* startPlayback calls suspended at `await ctx.resume()`
    pendingUploads, \* handleFileUpload calls suspended at `await parseMidiFile`
    output,         \* the sample the last step rendered, NoOutput when it rendered none
    lastOp,         \* the handler or step that ran last
    afterStop,      \* TRUE from a stopPlayback call until the next startPlayback call
    userActions     \* the number of user actions so far

vars == <<notes, noteLimit, transpose, options, expression, fileName, error,
          isPlaying, audioCtx, processorNode, virtualT, pendingStarts,
          pendingUploads, output, lastOp, afterStop, userActions>>

-----------------------------------------------------------------------------
(* Bounds of the model *)

\* longest note sequence drawn as input of generateBytebeat
MaxNotes == 2
\* largest Note.duration drawn, in units of 1/DurDen
MaxDur == 2
\* largest Note.restAfter drawn
MaxRest == 1
\* the expression is evaluated at every t in 0..MaxEvalT
MaxEvalT == 9
\* user actions in one behaviour: uploads, slider and field changes, example, reset,
\* clicks on the play button
MaxUserActions == 4
\* onaudioprocess renders while Math.floor(virtualTRef.current) is below MaxRenderT
MaxRenderT == 3
\* pitches are drawn up to MaxOctaves octaves above the base pitch
MaxOctaves == 3

-----------------------------------------------------------------------------
(* Arithmetic of JavaScript numbers *)

\* resolution of Note.duration: a duration d of the model is the number d/DurDen
DurDen == 2

Abs(x) == IF x < 0 THEN -x ELSE x

\* Math.floor of a number given in units of 1/DurDen
Floor(h) == h \div DurDen

\* the remainder operator a % b of JavaScript on integers (sign of the dividend);
\* a % 0 is NaN, reported as the pair <<FALSE, 0>>
JsRem(a, b) ==
    IF b = 0 THEN <<FALSE, 0>>
    ELSE IF a >= 0 THEN <<TRUE, a % Abs(b)>>
    ELSE <<TRUE, -((-a) % Abs(b))>>

\* parseFloat(coeff.toFixed(2)): thousandths rounded to the nearest hundredth
ToFixed2(c) == (c + 5) \div 10

\* truncation toward zero of a value given in hundredths (ToInt32 of `val & 0xFF`)
Trunc100(v) == IF v >= 0 THEN v \div 100 ELSE -((-v) \div 100)

-----------------------------------------------------------------------------
(* bytebeatUtils.ts *)

\* 2^(m/12) for m in 0..11, in ten-thousandths
SemitoneRatio ==
    <<10000, 10595, 11225, 11892, 12599, 13348, 14142, 14983, 15874, 16818, 17818, 18877>>

RECURSIVE Pow2(_)
Pow2(k) == IF k <= 0 THEN 1 ELSE 2 * Pow2(k - 1)

pitchToCoeff_Unscaled(pitch, basePitch, baseCoeff) == baseCoeff

pitchToCoeff_Downward(pitch, basePitch, baseCoeff) ==
    LET d == basePitch - pitch
        q == d \div 12
        m == d % 12
    IN  IF q >= 0
        THEN (baseCoeff * SemitoneRatio[m + 1] * Pow2(q)) \div 10000
        ELSE (baseCoeff * SemitoneRatio[m + 1]) \div (10000 * Pow2(-q))

\* baseCoeff * Math.pow(2, (pitch - basePitch) / 12), in thousandths
pitchToCoeff(pitch, basePitch, baseCoeff) ==
    LET d == pitch - basePitch
        q == d \div 12
        m == d % 12
    IN  IF q >= 0
        THEN (baseCoeff * SemitoneRatio[m + 1] * Pow2(q)) \div 10000
        ELSE (baseCoeff * SemitoneRatio[m + 1]) \div (10000 * Pow2(-q))

NoteSegment_IgnoringRest(opts, accumulatedTime, note) ==
    [period |-> opts.totalPeriod,
     thr |-> Floor(accumulatedTime + note.duration * opts.baseUnit),
     kind |-> "note", coeff |-> ToFixed2(note.coeff)]

\* noteEndTime, and `(t%${totalPeriod}<${Math.floor(noteEndTime)})?(t*${coeff}):`
NoteSegment(opts, accumulatedTime, note) ==
    LET noteEndTime == accumulatedTime + note.duration * opts.baseUnit
                         - DurDen * note.restAfter
    IN  [period |-> opts.totalPeriod, thr |-> Floor(noteEndTime), kind |-> "note",
         coeff |-> ToFixed2(note.coeff)]

\* `(t%${totalPeriod}<${Math.floor(accumulatedTime)})?0:`
RestSegment(opts, accumulatedTime) ==
    [period |-> opts.totalPeriod, thr |-> Floor(accumulatedTime), kind |-> "zero",
     coeff |-> 0]

EmitsRest_Always(ns, index) == index < Len(ns)

\* the condition under which the silence segment is appended after note `index`
EmitsRest(ns, index) == ns[index].restAfter > 0 /\ index < Len(ns)

\* the body of notes.forEach, from note `index` on, with the running accumulatedTime
RECURSIVE ForEachNote(_, _, _, _)
ForEachNote(ns, opts, index, accumulatedTime) ==
    IF index > Len(ns) THEN <<>>
    ELSE LET note == ns[index]
             acc2 == accumulatedTime + note.duration * opts.baseUnit
         IN  <<NoteSegment(opts, accumulatedTime, note)>>
             \o (IF EmitsRest(ns, index) THEN <<RestSegment(opts, acc2)>> ELSE <<>>)
             \o ForEachNote(ns, opts, index + 1, acc2)

generateBytebeat_Reversed(ns, opts) ==
    IF Len(ns) = 0 THEN <<>>
    ELSE ForEachNote([i \in 1..Len(ns) |-> ns[Len(ns) + 1 - i]], opts, 1, 0)

\* generateBytebeat: the expression as its sequence of conditional segments; the
\* literal "0" and the terminating "0)" are the empty tail of the sequence
generateBytebeat(ns, opts) ==
    IF Len(ns) = 0 THEN <<>> ELSE ForEachNote(ns, opts, 1, 0)

-----------------------------------------------------------------------------
(* Evaluation of the expression: new Function('t', `return ${expression};`) *)

Cond_Inclusive(seg, t) ==
    LET r == JsRem(t, seg.period) IN r[1] /\ r[2] <= seg.thr

\* `t%P<N`: a comparison with NaN is false
Cond(seg, t) ==
    LET r == JsRem(t, seg.period) IN r[1] /\ r[2] < seg.thr

\* the nested ternaries: the index of the first segment whose condition holds, 0 if none
RECURSIVE FirstTrue(_, _, _)
FirstTrue(expr, t, j) ==
    IF j > Len(expr) THEN 0
    ELSE IF Cond(expr[j], t) THEN j
    ELSE FirstTrue(expr, t, j + 1)

\* the number of note segments among the first j segments: segment j, when it is
\* a note segment, belongs to the note of that index
RECURSIVE NoteOfSeg(_, _)
NoteOfSeg(expr, j) ==
    IF j = 0 THEN 0
    ELSE NoteOfSeg(expr, j - 1) + (IF expr[j].kind = "note" THEN 1 ELSE 0)

\* func(t), in hundredths
func(expr, t) ==
    LET j == FirstTrue(expr, t, 1)
    IN  IF j = 0 \/ expr[j].kind = "zero" THEN 0 ELSE t * expr[j].coeff

\* the note whose segment func(t) selects, 0 when the value is a literal 0
Sounding(expr, t) ==
    LET j == FirstTrue(expr, t, 1)
    IN  IF j = 0 \/ expr[j].kind = "zero" THEN 0 ELSE NoteOfSeg(expr, j)

\* `val & 0xFF`
LowByte(val) == Trunc100(val) % 256

Sample_Uncentred(val) == LowByte(val)

\* `((val & 0xFF) / 128) - 1.0`, in units of 1/128
Sample(val) == LowByte(val) - 128

\* one evaluation as onaudioprocess performs it at the integer time t
Rendered(expr, t) ==
    [t |-> t, note |-> Sounding(expr, t), val |-> func(expr, t),
     byte |-> LowByte(func(expr, t)), sample |-> Sample(func(expr, t)),
     n |-> 0, wrapped |-> FALSE]

NoOutput == [t |-> -1, note |-> 0, val |-> 0, byte |-> 0, sample |-> 0,
             n |-> 0, wrapped |-> FALSE]

-----------------------------------------------------------------------------
(* types.ts: the state of the App component *)

\* DEFAULT_OPTIONS (baseCoeff 8.37 in thousandths)
DEFAULT_OPTIONS ==
    [baseUnit |-> 8000, restDuration |-> 200, totalPeriod |-> 64000,
     basePitch |-> 60, baseCoeff |-> 8370]

\* useState<number>(1000) of noteLimit, and the setNoteLimit(1000) of resetFile
InitialNoteLimit == 1000

\* a Note: the fields the compiler and the transposition read (id and startTime
\* are read by neither)
MakeNote(pitch, duration, coeff, restAfter) ==
    [pitch |-> pitch, duration |-> duration, coeff |-> coeff, restAfter |-> restAfter]

Min(a, b) == IF a < b THEN a ELSE b

transposedNotes_StaleCoeff(ns, tr, opts) ==
    [i \in 1..Len(ns) |-> [ns[i] EXCEPT !.pitch = ns[i].pitch + tr]]

\* the useMemo of transposedNotes
transposedNotes(ns, tr, opts) ==
    [i \in 1..Len(ns) |->
        [ns[i] EXCEPT !.pitch = ns[i].pitch + tr,
                      !.coeff = pitchToCoeff(ns[i].pitch + tr, opts.basePitch,
                                             opts.baseCoeff)]]

\* transposedNotes.slice(0, noteLimit)
activeNotes(ns, limit, tr, opts) ==
    SubSeq(transposedNotes(ns, tr, opts), 1, Min(limit, Len(ns)))

\* the useEffect that recompiles: setExpression(generateBytebeat(activeNotes, options))
Compiled(ns, limit, tr, opts) ==
    generateBytebeat(activeNotes(ns, limit, tr, opts), opts)

NoError == "null"
MidiError == "MIDI parse failed"
AudioError == "audio engine failed to start"

NoContext == [state |-> "none", sampleRate |-> 0]
NoProcessor == [present |-> FALSE, func |-> <<>>, totalPeriod |-> 0, connected |-> FALSE]

\* the state after the first render of App
InitApp ==
    /\ notes = <<>>
    /\ noteLimit = InitialNoteLimit
    /\ transpose = 0
    /\ options = DEFAULT_OPTIONS
    /\ expression = <<>>
    /\ fileName = FALSE
    /\ error = NoError
    /\ isPlaying = FALSE
    /\ audioCtx = NoContext
    /\ processorNode = NoProcessor
    /\ virtualT = 0
    /\ pendingStarts = <<>>
    /\ pendingUploads = <<>>
    /\ output = NoOutput
    /\ lastOp = "init"
    /\ afterStop = FALSE
    /\ userActions = 0

-----------------------------------------------------------------------------
(* The compiler and the evaluation as pure functions of bounded inputs *)

\* coefficients drawn for the notes, in thousandths (2.0 and 8.376)
CoeffInputs == {2000, 8376}
\* values of options.baseUnit and options.totalPeriod drawn
BaseUnitInputs == {1, 2}
PeriodInputs == {0, 1, 3, 4}

NoteInputs ==
    {MakeNote(60, d, c, r) : d \in 0..MaxDur, c \in CoeffInputs, r \in 0..MaxRest}

NoteSeqInputs == UNION {[1..n -> NoteInputs] : n \in 0..MaxNotes}

OptionInputs ==
    {[DEFAULT_OPTIONS EXCEPT !.baseUnit = bu, !.totalPeriod = p] :
        bu \in BaseUnitInputs, p \in PeriodInputs}

\* the end-to-end scenario: three notes of duration 1 and rest 0, pitches 60, 72, 60,
\* baseUnit 1000, totalPeriod 3000, basePitch 60, baseCoeff 1.0
ScenarioOptions ==
    [baseUnit |-> 1000, restDuration |-> 0, totalPeriod |-> 3000,
     basePitch |-> 60, baseCoeff |-> 1000]

ScenarioNote(pitch) ==
    MakeNote(pitch, 1 * DurDen,
             pitchToCoeff(pitch, ScenarioOptions.basePitch, ScenarioOptions.baseCoeff), 0)

ScenarioNotes == <<ScenarioNote(60), ScenarioNote(72), ScenarioNote(60)>>

ScenarioTimes == {500, 1500}

EvalTimes == (0..MaxEvalT) \cup ScenarioTimes

InitCompile ==
    /\ \/ notes \in NoteSeqInputs /\ options \in OptionInputs
       \/ notes = ScenarioNotes /\ options = ScenarioOptions
    /\ noteLimit = Len(notes)
    /\ transpose = 0
    /\ expression = generateBytebeat(notes, options)
    /\ fileName = FALSE
    /\ error = NoError
    /\ isPlaying = FALSE
    /\ audioCtx = NoContext
    /\ processorNode = NoProcessor
    /\ virtualT = 0
    /\ pendingStarts = <<>>
    /\ pendingUploads = <<>>
    /\ output = NoOutput
    /\ lastOp = "init"
    /\ afterStop = FALSE
    /\ userActions = 0

\* func(t) and the output formula applied once to the compiled expression, at a time t
Evaluate ==
    /\ output = NoOutput
    /\ \E t \in EvalTimes : output' = Rendered(expression, t)
    /\ lastOp' = "evaluate"
    /\ UNCHANGED <<notes, noteLimit, transpose, options, expression, fileName, error,
                   isPlaying, audioCtx, processorNode, virtualT, pendingStarts,
                   pendingUploads, afterStop, userActions>>

NextCompile == Evaluate

SpecCompile == InitCompile /\ [][NextCompile]_vars

-----------------------------------------------------------------------------
(* types.ts: the handlers that change the notes and the options.  Each handler
   is followed by the render it causes and by the effect that recompiles the
   expression from the new activeNotes and options. *)

\* the parts of a MIDI file parseMidiFile reads: whether the file decodes, and the
\* notes <<midi, duration>> of its first track that has notes
CorruptFile == [valid |-> FALSE, track |-> <<>>]
TwoNoteFile == [valid |-> TRUE, track |-> << <<60, 1 * DurDen>>, <<72, 1>> >>]
MidiFiles == {CorruptFile, TwoNoteFile}

\* values the user moves the transpose slider to (its range is -12..12)
TransposeInputs == {-5}
\* values the user moves the note-limit slider to
NoteLimitInputs == {1}
\* values the user types into the totalPeriod and baseUnit fields
PeriodEdits == {0, 3}
BaseUnitEdits == {202}

\* parseMidiFile: track.notes.map(...)
parseMidiFile(file, opts) ==
    [i \in 1..Len(file.track) |->
        MakeNote(file.track[i][1], file.track[i][2],
                 pitchToCoeff(file.track[i][1], opts.basePitch, opts.baseCoeff),
                 opts.restDuration)]

\* the melody of loadExample
melody ==
    <<60, 60, 67, 67, 69, 69, 67,
      65, 65, 64, 64, 62, 62, 60,
      67, 67, 65, 65, 64, 64, 62,
      67, 67, 65, 65, 64, 64, 62,
      60, 60, 67, 67, 69, 69, 67,
      65, 65, 64, 64, 62, 62, 60>>

\* exampleNotes of loadExample (idx counts from 0 in the source)
exampleNotes ==
    [k \in 1..Len(melody) |->
        MakeNote(melody[k], (IF (k - 1) % 7 = 6 THEN 2 ELSE 1) * DurDen,
                 pitchToCoeff(melody[k], 60, 8370), 200)]

\* one more user action, within the bound of the model
CountUserAction == userActions < MaxUserActions /\ userActions' = userActions + 1

\* the recompiling effect after a handler has set the primed state
Recompile == expression' = Compiled(notes', noteLimit', transpose', options')

\* a step that is no iteration of onaudioprocess renders no sample
NoSample == output' = NoOutput

\* what no handler of the notes and options touches
UnchangedPlayback ==
    /\ UNCHANGED <<isPlaying, audioCtx, processorNode, virtualT, pendingStarts, afterStop>>
    /\ NoSample

\* handleFileUpload up to its await: the file input is rendered while fileName is null
HandleFileUpload ==
    /\ CountUserAction
    /\ ~fileName
    /\ \E file \in MidiFiles :
          pendingUploads' = Append(pendingUploads, [file |-> file, options |-> options])
    /\ fileName' = TRUE
    /\ lastOp' = "edit"
    /\ UNCHANGED <<notes, noteLimit, transpose, options, expression, error>>
    /\ UnchangedPlayback

\* handleFileUpload after its await: parseMidiFile resolved or threw
FileParsed ==
    /\ UNCHANGED userActions
    /\ Len(pendingUploads) > 0
    /\ LET up == Head(pendingUploads)
       IN  IF up.file.valid
           THEN /\ notes' = parseMidiFile(up.file, up.options)
                /\ noteLimit' = Len(notes')
                /\ error' = NoError
           ELSE /\ error' = MidiError
                /\ UNCHANGED <<notes, noteLimit>>
    /\ pendingUploads' = Tail(pendingUploads)
    /\ lastOp' = "edit"
    /\ UNCHANGED <<transpose, options, fileName>>
    /\ Recompile
    /\ UnchangedPlayback

\* onChange of the transpose slider
SetTranspose ==
    /\ CountUserAction
    /\ \E v \in TransposeInputs : transpose' = v
    /\ lastOp' = "edit"
    /\ UNCHANGED <<notes, noteLimit, options, fileName, error, pendingUploads>>
    /\ Recompile
    /\ UnchangedPlayback

\* onChange of the note-limit slider (min 1, max Math.max(1, notes.length))
SetNoteLimit ==
    /\ CountUserAction
    /\ \E v \in NoteLimitInputs :
          /\ v <= (IF Len(notes) > 1 THEN Len(notes) ELSE 1)
          /\ noteLimit' = v
    /\ lastOp' = "edit"
    /\ UNCHANGED <<notes, transpose, options, fileName, error, pendingUploads>>
    /\ Recompile
    /\ UnchangedPlayback

\* onChange of the totalPeriod field
SetTotalPeriod ==
    /\ CountUserAction
    /\ \E v \in PeriodEdits : options' = [options EXCEPT !.totalPeriod = v]
    /\ lastOp' = "edit"
    /\ UNCHANGED <<notes, noteLimit, transpose, fileName, error, pendingUploads>>
    /\ Recompile
    /\ UnchangedPlayback

\* onChange of the baseUnit field
SetBaseUnit ==
    /\ CountUserAction
    /\ \E v \in BaseUnitEdits : options' = [options EXCEPT !.baseUnit = v]
    /\ lastOp' = "edit"
    /\ UNCHANGED <<notes, noteLimit, transpose, fileName, error, pendingUploads>>
    /\ Recompile
    /\ UnchangedPlayback

\* loadExample
LoadExample ==
    /\ CountUserAction
    /\ fileName' = TRUE
    /\ notes' = exampleNotes
    /\ noteLimit' = Len(exampleNotes)
    /\ options' = [DEFAULT_OPTIONS EXCEPT !.totalPeriod = 320000, !.baseUnit = 8000]
    /\ transpose' = 0
    /\ lastOp' = "edit"
    /\ UNCHANGED <<error, pendingUploads>>
    /\ Recompile
    /\ UnchangedPlayback

-----------------------------------------------------------------------------
(* types.ts: playback *)

\* const virtualSampleRate = 8000
virtualSampleRate == 8000

\* values of ctx.sampleRate the host may give
HostRates == {8000, 11025}

\* what a startPlayback call reads from the render that created it
Closure == [expression |-> expression, totalPeriod |-> options.totalPeriod]

NewProcessor_LiveOptions(cl) ==
    [present |-> TRUE, func |-> cl.expression, totalPeriod |-> options.totalPeriod,
     connected |-> TRUE]

\* the processor of lines 129-146: func compiled from the expression of the closure,
\* onaudioprocess reading options.totalPeriod of the closure, connected
NewProcessor(cl) ==
    [present |-> TRUE, func |-> cl.expression, totalPeriod |-> cl.totalPeriod,
     connected |-> TRUE]

\* `if (processorNodeRef.current) processorNodeRef.current.disconnect()`
Disconnected(p) == IF p.present THEN [p EXCEPT !.connected = FALSE] ELSE p

\* lines 127-148 run to the end
StartSucceeds(cl) ==
    /\ processorNode' = NewProcessor(cl)
    /\ virtualT' = 0
    /\ isPlaying' = TRUE
    /\ lastOp' = "start"
    /\ UNCHANGED error

\* createScriptProcessor throws: line 127 has run, the catch sets the error
CreateThrows ==
    /\ processorNode' = Disconnected(processorNode)
    /\ error' = AudioError
    /\ lastOp' = "startFailed"
    /\ UNCHANGED <<virtualT, isPlaying>>

\* processor.connect throws: lines 127-134 have run, the catch sets the error
ConnectThrows ==
    /\ processorNode' = Disconnected(processorNode)
    /\ virtualT' = 0
    /\ error' = AudioError
    /\ lastOp' = "startFailed"
    /\ UNCHANGED isPlaying

StartBody(cl) == StartSucceeds(cl) \/ CreateThrows \/ ConnectThrows

UnchangedConfig ==
    UNCHANGED <<notes, noteLimit, transpose, options, expression, fileName,
                pendingUploads>>

\* startPlayback, the AudioContext constructor throws
StartContextThrows ==
    /\ CountUserAction
    /\ ~isPlaying
    /\ audioCtx = NoContext
    /\ error' = AudioError
    /\ lastOp' = "startFailed"
    /\ afterStop' = FALSE
    /\ UNCHANGED <<isPlaying, audioCtx, processorNode, virtualT, pendingStarts>>
    /\ NoSample
    /\ UnchangedConfig

\* startPlayback with a suspended context: the call waits at `await ctx.resume()`
StartAwaitsResume ==
    /\ CountUserAction
    /\ ~isPlaying
    /\ IF audioCtx = NoContext
       THEN \E r \in HostRates : audioCtx' = [state |-> "suspended", sampleRate |-> r]
       ELSE audioCtx.state = "suspended" /\ UNCHANGED audioCtx
    /\ pendingStarts' = Append(pendingStarts, Closure)
    /\ lastOp' = "start"
    /\ afterStop' = FALSE
    /\ UNCHANGED <<isPlaying, processorNode, virtualT, error>>
    /\ NoSample
    /\ UnchangedConfig

\* startPlayback with a running context: no await, the call runs to its end
StartRuns ==
    /\ CountUserAction
    /\ ~isPlaying
    /\ IF audioCtx = NoContext
       THEN \E r \in HostRates : audioCtx' = [state |-> "running", sampleRate |-> r]
       ELSE audioCtx.state = "running" /\ UNCHANGED audioCtx
    /\ StartBody(Closure)
    /\ afterStop' = FALSE
    /\ UNCHANGED pendingStarts
    /\ NoSample
    /\ UnchangedConfig

\* the promise of ctx.resume() resolves: the oldest waiting call continues
ResumeResolves ==
    /\ UNCHANGED userActions
    /\ Len(pendingStarts) > 0
    /\ audioCtx' = [audioCtx EXCEPT !.state = "running"]
    /\ StartBody(Head(pendingStarts))
    /\ pendingStarts' = Tail(pendingStarts)
    /\ UNCHANGED afterStop
    /\ NoSample
    /\ UnchangedConfig

\* the promise of ctx.resume() rejects: the catch of the oldest waiting call runs
ResumeRejects ==
    /\ UNCHANGED userActions
    /\ Len(pendingStarts) > 0
    /\ error' = AudioError
    /\ lastOp' = "startFailed"
    /\ pendingStarts' = Tail(pendingStarts)
    /\ UNCHANGED <<isPlaying, audioCtx, processorNode, virtualT, afterStop>>
    /\ NoSample
    /\ UnchangedConfig

\* the body of stopPlayback
StopBody ==
    /\ processorNode' = NoProcessor
    /\ isPlaying' = FALSE
    /\ virtualT' = 0

\* stopPlayback from the play button, which calls it while isPlaying
StopPlayback ==
    /\ CountUserAction
    /\ isPlaying
    /\ StopBody
    /\ lastOp' = "stop"
    /\ afterStop' = TRUE
    /\ UNCHANGED <<audioCtx, pendingStarts, error>>
    /\ NoSample
    /\ UnchangedConfig

\* resetFile, from the button rendered while fileName is set
ResetFile ==
    /\ CountUserAction
    /\ fileName
    /\ fileName' = FALSE
    /\ notes' = <<>>
    /\ noteLimit' = InitialNoteLimit
    /\ transpose' = 0
    /\ StopBody
    /\ lastOp' = "stop"
    /\ afterStop' = TRUE
    /\ UNCHANGED <<options, error, pendingUploads, audioCtx, pendingStarts>>
    /\ NoSample
    /\ Recompile

Advance_ResetBeyondOnly(vt, rate, totalPeriod) ==
    IF \/ (vt + virtualSampleRate) \div rate > totalPeriod
       \/ /\ (vt + virtualSampleRate) \div rate = totalPeriod
          /\ (vt + virtualSampleRate) % rate # 0
    THEN 0
    ELSE vt + virtualSampleRate

Advance_Modulo(vt, rate, totalPeriod) ==
    IF (vt + virtualSampleRate) \div rate >= totalPeriod
    THEN vt + virtualSampleRate - totalPeriod * rate
    ELSE vt + virtualSampleRate

\* `virtualTRef.current += ratio; if (virtualTRef.current >= options.totalPeriod)
\* virtualTRef.current = 0`, on the accumulator counted in units of 1/rate; for an
\* integer totalPeriod the comparison is the comparison of the integer part
Advance(vt, rate, totalPeriod) ==
    IF (vt + virtualSampleRate) \div rate >= totalPeriod
    THEN 0
    ELSE vt + virtualSampleRate

\* one iteration of the loop of onaudioprocess.  A callback runs 4096 iterations
\* without interruption; where its boundaries fall in the period depends on the
\* period and the ratio, so the other handlers may run between any two iterations.
RenderSample ==
    /\ UNCHANGED userActions
    /\ processorNode.present /\ processorNode.connected
    /\ audioCtx.state = "running"
    /\ virtualT \div audioCtx.sampleRate < MaxRenderT
    /\ LET t == virtualT \div audioCtx.sampleRate
           next == Advance(virtualT, audioCtx.sampleRate, processorNode.totalPeriod)
       IN  /\ output' = [Rendered(processorNode.func, t) EXCEPT
                            !.n = virtualT \div virtualSampleRate,
                            !.wrapped = (virtualT + virtualSampleRate) \div audioCtx.sampleRate
                                           >= processorNode.totalPeriod]
           /\ virtualT' = next
    /\ lastOp' = "render"
    /\ UNCHANGED <<isPlaying, audioCtx, processorNode, pendingStarts, error, afterStop>>
    /\ UnchangedConfig

Next ==
    \/ HandleFileUpload
    \/ FileParsed
    \/ SetTranspose
    \/ SetNoteLimit
    \/ SetTotalPeriod
    \/ SetBaseUnit
    \/ LoadExample
    \/ ResetFile
    \/ StartContextThrows
    \/ StartAwaitsResume
    \/ StartRuns
    \/ ResumeResolves
    \/ ResumeRejects
    \/ StopPlayback
    \/ RenderSample

Spec == InitApp /\ [][Next]_vars

-----------------------------------------------------------------------------
(* pitchToCoeff as a pure function of bounded inputs: parseMidiFile applies it to
   the one note of an uploaded file, with the options of the upload *)

\* values of options.basePitch and options.baseCoeff drawn (in thousandths)
BasePitchInputs == {48, 60, 69}
BaseCoeffInputs == {1000, 8370, 8376}

\* pitch - basePitch of the notes drawn: every semitone of the octave below and of
\* the first octave above the base pitch, and the whole octaves up to MaxOctaves
SemitoneOffsets == (-12..11) \cup {12 * k : k \in 0..MaxOctaves}

\* a MIDI file whose first track holds one note of the given pitch
OneNoteFile(midi) == [valid |-> TRUE, track |-> << <<midi, 1 * DurDen>> >>]

\* handleFileUpload has reached its await with such a file
InitCoeff ==
    /\ \E b \in BasePitchInputs, c \in BaseCoeffInputs :
          options = [DEFAULT_OPTIONS EXCEPT !.basePitch = b, !.baseCoeff = c]
    /\ \E d \in SemitoneOffsets :
          pendingUploads = <<[file |-> OneNoteFile(options.basePitch + d),
                              options |-> options]>>
    /\ notes = <<>>
    /\ noteLimit = InitialNoteLimit
    /\ transpose = 0
    /\ expression = <<>>
    /\ fileName = TRUE
    /\ error = NoError
    /\ isPlaying = FALSE
    /\ audioCtx = NoContext
    /\ processorNode = NoProcessor
    /\ virtualT = 0
    /\ pendingStarts = <<>>
    /\ output = NoOutput
    /\ lastOp = "edit"
    /\ afterStop = FALSE
    /\ userActions = 1

NextCoeff == FileParsed

SpecCoeff == InitCoeff /\ [][NextCoeff]_vars

-----------------------------------------------------------------------------
(* Properties of the compiler and of the evaluation (under SpecCompile) *)

\* duration*baseUnit of note i, in units of 1/DurDen
Span(i) == notes[i].duration * options.baseUnit

\* the sum of duration*baseUnit of the notes before note i, in units of 1/DurDen
RECURSIVE CursorOf(_)
CursorOf(i) == IF i <= 1 THEN 0 ELSE CursorOf(i - 1) + Span(i - 1)

\* duration*baseUnit of note i is a positive integer
PositiveIntegerSpan(i) == Span(i) > 0 /\ Span(i) % DurDen = 0

\* the hundredth nearest to a number of thousandths (the larger one on a tie)
NearestHundredth(c) ==
    CHOOSE n \in ((c \div 10) - 1)..((c \div 10) + 1) : 10 * n - 5 <= c /\ c < 10 * n + 5

\* the inputs C1 quantifies over
WellFormedInput ==
    /\ \A i \in 1..Len(notes) :
          /\ PositiveIntegerSpan(i)
          /\ 0 <= notes[i].restAfter
          /\ DurDen * notes[i].restAfter < Span(i)
    /\ CursorOf(Len(notes) + 1) <= DurDen * options.totalPeriod

\* cursor_i <= (t mod totalPeriod) < cursor_i + duration_i*baseUnit - restAfter_i
InSoundingWindow(i, t) ==
    /\ options.totalPeriod > 0
    /\ CursorOf(i) <= DurDen * (t % options.totalPeriod)
    /\ DurDen * (t % options.totalPeriod) < CursorOf(i) + Span(i) - DurDen * notes[i].restAfter

Evaluated == lastOp = "evaluate"

\* C1 as stated: on a well-formed input the expression evaluates to t*coeff_i when
\* t mod totalPeriod lies in the sounding window of note i, and to 0 for every other t
C1_ValueIsTimesCoeff ==
    (Evaluated /\ WellFormedInput) =>
        /\ \A i \in 1..Len(notes) :
              InSoundingWindow(i, output.t) => 10 * output.val = output.t * notes[i].coeff
        /\ (\A i \in 1..Len(notes) : ~InSoundingWindow(i, output.t)) => output.val = 0

\* C1 (amended): on a well-formed input the expression selects the segment of note i
\* exactly when t mod totalPeriod lies in the sounding window of note i, its value there
\* is t times coeff_i rounded to two decimals, and it is 0 for every other t
C1_ValueIsTimesRoundedCoeff ==
    (Evaluated /\ WellFormedInput) =>
        /\ \A i \in 1..Len(notes) :
              /\ InSoundingWindow(i, output.t) <=> output.note = i
              /\ output.note = i =>
                    output.val = output.t * NearestHundredth(notes[i].coeff)
        /\ output.note = 0 => output.val = 0

\* the second of two well-formed notes sounds at a t beyond the first period, with a
\* coefficient that has a third decimal
C1_Witness ==
    /\ Evaluated /\ WellFormedInput
    /\ Len(notes) = 2
    /\ notes[1].restAfter > 0
    /\ output.note = 2
    /\ output.t >= options.totalPeriod
    /\ notes[2].coeff % 10 # 0
    /\ output.val # 0

AllRestZero == \A i \in 1..Len(notes) : notes[i].restAfter = 0

\* one segment per note, none of them a silence segment, the i-th threshold equal to
\* the cumulative sum of duration*baseUnit over notes 1..i, strictly increasing
OneSegmentPerNoteAtCumulativeSums ==
    /\ Len(expression) = Len(notes)
    /\ \A i \in 1..Len(expression) :
          /\ expression[i].kind = "note"
          /\ DurDen * expression[i].thr = CursorOf(i + 1)
    /\ \A i \in 1..(Len(expression) - 1) : expression[i].thr < expression[i + 1].thr

\* C2 as stated: for every non-empty note sequence with restAfter = 0 throughout, one
\* segment per note, no silence segment, thresholds strictly increasing and equal to
\* the cumulative sums of duration*baseUnit
C2_ThresholdsAreCumulativeSums ==
    (Len(notes) > 0 /\ AllRestZero) => OneSegmentPerNoteAtCumulativeSums

\* C2 (amended): the same, for the sequences in which every duration*baseUnit is a
\* positive integer
C2_ThresholdsOfPositiveIntegerSpans ==
    (Len(notes) > 0 /\ AllRestZero /\ \A i \in 1..Len(notes) : PositiveIntegerSpan(i))
        => OneSegmentPerNoteAtCumulativeSums

\* two notes of different positive integer lengths, no rests
C2_Witness ==
    /\ Len(notes) = 2 /\ AllRestZero
    /\ \A i \in 1..Len(notes) : PositiveIntegerSpan(i)
    /\ Span(1) # Span(2)
    /\ Len(expression) = 2
    /\ expression[2].thr > expression[1].thr

InScenario == notes = ScenarioNotes /\ options = ScenarioOptions

\* C3: the three-note scenario compiles to thresholds 1000, 2000, 3000 with
\* coefficients 1, 2, 1; at t=500 the value is 500, the byte 244 and the sample
\* 244/128 - 1; at t=1500 the value is 3000, the byte 184 and the sample 184/128 - 1
C3_EndToEndScenario ==
    InScenario =>
        /\ [i \in 1..Len(expression) |-> expression[i].thr] = <<1000, 2000, 3000>>
        /\ [i \in 1..Len(expression) |-> expression[i].coeff] = <<100, 200, 100>>
        /\ \A i \in 1..Len(expression) : expression[i].kind = "note"
        /\ (Evaluated /\ output.t = 500) =>
              output.val = 500 * 100 /\ output.byte = 244 /\ output.sample = 244 - 128
        /\ (Evaluated /\ output.t = 1500) =>
              output.val = 3000 * 100 /\ output.byte = 184 /\ output.sample = 184 - 128

\* the scenario evaluated at t=1500, where the second note sounds
C3_Witness == InScenario /\ Evaluated /\ output.t = 1500 /\ output.note = 2

\* restAfter >= duration*baseUnit
NeverSounding(i) == DurDen * notes[i].restAfter >= Span(i)

\* the integer times of one period that belong to note i: from its cursor to the
\* cursor of the next note, as the compiled thresholds count them
InTimeWindow(i, t) ==
    LET r == JsRem(t, options.totalPeriod)
    IN  r[1] /\ Floor(CursorOf(i)) <= r[2] /\ r[2] < Floor(CursorOf(i + 1))

\* the part of the time window of note i before its rest
InSoundingPart(i, t) ==
    LET r == JsRem(t, options.totalPeriod)
    IN  /\ r[1]
        /\ Floor(CursorOf(i)) <= r[2]
        /\ r[2] < Floor(CursorOf(i) + Span(i) - DurDen * notes[i].restAfter)

\* C10: a note with restAfter >= duration*baseUnit is compiled (one note segment per
\* note, nothing rejected) but its segment is never selected and the output is 0
\* throughout its time window; every other note sounds exactly in its own window
C10_OverlongRestSilencesOnlyThatNote ==
    /\ NoteOfSeg(expression, Len(expression)) = Len(notes)
    /\ Evaluated =>
          \A i \in 1..Len(notes) :
             IF NeverSounding(i)
             THEN /\ output.note # i
                  /\ InTimeWindow(i, output.t) => output.val = 0
             ELSE output.note = i <=> InSoundingPart(i, output.t)

\* the second note has restAfter >= duration*baseUnit, the first has no rest, and
\* the expression is evaluated inside the second note's time window
C10_Witness ==
    /\ Evaluated
    /\ Len(notes) = 2
    /\ notes[1].restAfter = 0 /\ Span(1) > 0
    /\ NeverSounding(2) /\ notes[2].restAfter > 0
    /\ InTimeWindow(2, output.t)
    /\ output.val = 0

\* the first note's segment is open at the time t: the period is not 0 and
\* (t mod totalPeriod) + 1 <= duration_1*baseUnit - restAfter_1
FirstNoteOpenAt(t) ==
    /\ options.totalPeriod # 0
    /\ DurDen * ((t % Abs(options.totalPeriod)) + 1) <= Span(1) - DurDen * notes[1].restAfter

\* C11 as stated: for every non-empty note list and every options value the
\* expression evaluates to 0 at t = 0 and to coeff_1 at t = 1
C11_ZeroAtZeroCoeffAtOne ==
    (Evaluated /\ Len(notes) > 0) =>
        /\ output.t = 0 => output.val = 0
        /\ output.t = 1 => 10 * output.val = notes[1].coeff

\* C11 (amended): for every non-empty note list the expression evaluates to 0 at
\* t = 0; at t = 1 it takes the first note's branch exactly when that note's segment
\* is open at 1, and its value there is coeff_1 rounded to two decimals
C11_ZeroAtZeroRoundedCoeffAtOne ==
    (Evaluated /\ Len(notes) > 0) =>
        /\ output.t = 0 => output.val = 0
        /\ output.t = 1 =>
              /\ output.note = 1 <=> FirstNoteOpenAt(1)
              /\ output.note = 1 => output.val = NearestHundredth(notes[1].coeff)

\* two notes of different coefficients, both segments open at t = 1, evaluated at 1
C11_Witness ==
    /\ Evaluated
    /\ Len(notes) = 2
    /\ notes[1].coeff # notes[2].coeff
    /\ FirstNoteOpenAt(1)
    /\ Cond(expression[Len(expression)], 1)
    /\ output.t = 1
    /\ output.val = NearestHundredth(notes[1].coeff)

-----------------------------------------------------------------------------
(* Properties of pitchToCoeff (under SpecCoeff) *)

\* parseMidiFile has returned the one note of the file
Parsed == Len(pendingUploads) = 0 /\ Len(notes) = 1

\* pitch - basePitch of the parsed note
ParsedOffset == notes[1].pitch - options.basePitch

\* C12: pitchToCoeff(p, p, c) = c, pitchToCoeff(p + 12, p, c) = 2*c, and
\* pitchToCoeff(p + 12k, p, c) = c * 2^k for every integer k >= 0
C12_OctavesDouble ==
    Parsed =>
        /\ ParsedOffset = 0 => notes[1].coeff = options.baseCoeff
        /\ ParsedOffset = 12 => notes[1].coeff = 2 * options.baseCoeff
        /\ \A k \in 0..MaxOctaves :
              ParsedOffset = 12 * k => notes[1].coeff = options.baseCoeff * Pow2(k)

\* a note two octaves above the base pitch, with the default base coefficient 8.37
C12_Witness ==
    /\ Parsed
    /\ ParsedOffset = 24
    /\ options.baseCoeff = DEFAULT_OPTIONS.baseCoeff
    /\ notes[1].coeff = 4 * options.baseCoeff

-----------------------------------------------------------------------------
(* Properties of the App component (under Spec) *)

RenderedLast == lastOp = "render"

CurrentActiveNotes == activeNotes(notes, noteLimit, transpose, options)

Connected == processorNode.present /\ processorNode.connected

\* the least integer not below a/b, for b > 0
CeilDiv(a, b) == -((-a) \div b)

\* C4: with no active note the compiler gives the always-zero expression, and a
\* synthesizer started on it with a totalPeriod > 0 outputs the sample -1.0
\* (-128/128) at every renderSample
C4_EmptySequenceRendersMinusOne ==
    /\ Len(CurrentActiveNotes) = 0 => expression = <<>>
    /\ (RenderedLast /\ processorNode.func = <<>> /\ processorNode.totalPeriod > 0)
          => (output.val = 0 /\ output.byte = 0 /\ output.sample = -128)

\* the always-zero expression rendered at a time t > 0, at the sample that wraps
C4_Witness ==
    /\ RenderedLast
    /\ processorNode.func = <<>>
    /\ processorNode.totalPeriod > 0
    /\ output.t > 0
    /\ output.wrapped
    /\ output.sample = -128

\* C5: a renderSample that advances the accumulator to totalPeriod or beyond leaves
\* it at exactly 0, whatever the overshoot; otherwise the accumulator is the number
\* of samples since the last reset times the ratio; and with totalPeriod > 0 the
\* sample that wraps is the ceil(totalPeriod / stepRatio)-th sample of its loop
C5_HardResetAtWraparound ==
    RenderedLast =>
        IF output.wrapped
        THEN /\ virtualT = 0
             /\ processorNode.totalPeriod > 0 =>
                   output.n + 1 = CeilDiv(processorNode.totalPeriod * audioCtx.sampleRate,
                                          virtualSampleRate)
        ELSE virtualT = (output.n + 1) * virtualSampleRate

\* a wraparound whose overshoot is not zero: the ratio does not divide totalPeriod
C5_Witness ==
    /\ RenderedLast
    /\ output.wrapped
    /\ processorNode.totalPeriod > 0
    /\ (output.n + 1) * virtualSampleRate > processorNode.totalPeriod * audioCtx.sampleRate
    /\ virtualT = 0

\* C6 as stated: compiling with a non-positive totalPeriod is rejected, the caller
\* gets an error and no expression is produced from that configuration
C6_NonPositivePeriodRejected ==
    (options.totalPeriod <= 0 /\ Len(CurrentActiveNotes) > 0) =>
        /\ error # NoError
        /\ \A i \in 1..Len(expression) : expression[i].period > 0

\* C7 as stated: after a start attempt that failed on the host side the error is
\* reported and the synthesizer is Stopped: not playing, no processor connected
C7_FailedStartLeavesStopped ==
    lastOp = "startFailed" => (error = AudioError /\ ~isPlaying /\ ~Connected)

\* C8 as stated: after a stop call the accumulator is 0, and no sample is rendered
\* from a stop call until a start call issued after it
C8_NoSampleBetweenStopAndStart ==
    /\ lastOp = "stop" => virtualT = 0
    /\ ~(afterStop /\ RenderedLast)

\* every segment of the expression was compiled with the totalPeriod p
UniformPeriod(expr, p) == \A i \in 1..Len(expr) : expr[i].period = p

\* C9: after every change the displayed expression is the whole compile of the new
\* notes, transpose and options; the processor (and every start still waiting)
\* holds one expression all of whose segments carry the totalPeriod it wraps at;
\* and a rendered sample is the value of that whole expression
C9_RenderedExpressionIsWhole ==
    /\ lastOp \in {"edit", "stop"} => expression = generateBytebeat(CurrentActiveNotes, options)
    /\ UniformPeriod(expression, options.totalPeriod)
    /\ processorNode.present =>
          UniformPeriod(processorNode.func, processorNode.totalPeriod)
    /\ \A k \in 1..Len(pendingStarts) :
          UniformPeriod(pendingStarts[k].expression, pendingStarts[k].totalPeriod)
    /\ RenderedLast => output.val = func(processorNode.func, output.t)

\* a sample rendered while Running after the options and the expression changed:
\* the processor still evaluates the expression and the period it was started with
C9_Witness ==
    /\ RenderedLast
    /\ isPlaying /\ Connected
    /\ Len(processorNode.func) > 0
    /\ processorNode.func # expression
    /\ processorNode.totalPeriod # options.totalPeriod

\* the notes the claim expects the compiler to receive: the first noteLimit notes,
\* each with its pitch moved by transpose and its coeff computed from the moved pitch
\* with the current basePitch and baseCoeff
ExpectedNotes ==
    [i \in 1..Min(noteLimit, Len(notes)) |->
        MakeNote(notes[i].pitch + transpose, notes[i].duration,
                 pitchToCoeff(notes[i].pitch + transpose, options.basePitch,
                              options.baseCoeff),
                 notes[i].restAfter)]

\* C13: after any sequence of uploads, loadExample, resetFile and changes of the
\* transpose, the note limit and the options, the displayed expression is the
\* compile, with the current options, of the first noteLimit notes, each with
\* coeff = pitchToCoeff(original pitch + transpose, basePitch, baseCoeff)
C13_ExpressionFollowsEveryChange ==
    expression = generateBytebeat(ExpectedNotes, options)

\* an uploaded file of two notes, transposed and limited to its first note: the
\* stored coeff of that note is not the one the expression carries
C13_Witness ==
    /\ lastOp = "edit"
    /\ Len(notes) = 2 /\ noteLimit = 1
    /\ transpose # 0
    /\ notes[1].coeff # ExpectedNotes[1].coeff
    /\ Len(expression) = 1
    /\ expression[1].coeff = ToFixed2(ExpectedNotes[1].coeff)
    /\ expression[1].coeff # ToFixed2(notes[1].coeff)

\* Math.floor of the start cursor of the note of the note segment j, as the
\* expression carries it: the threshold of the segment before it, which is the silence
\* segment closing the previous note or, after a note without rest, that note's segment
StartCursor(expr, j) == IF j = 1 THEN 0 ELSE expr[j - 1].thr

\* C14: while a processor with totalPeriod > 0 is connected the accumulator is at
\* least 0 and below totalPeriod whenever the expression is evaluated; the evaluated
\* t = floor(accumulator) lies in 0..totalPeriod-1 and t mod totalPeriod = t; and a
\* note whose start cursor is totalPeriod or more never sounds
C14_AccumulatorWithinPeriod ==
    /\ (Connected /\ processorNode.totalPeriod > 0) =>
          /\ 0 <= virtualT
          /\ virtualT \div audioCtx.sampleRate < processorNode.totalPeriod
    /\ (RenderedLast /\ processorNode.totalPeriod > 0) =>
          /\ 0 <= output.t /\ output.t <= processorNode.totalPeriod - 1
          /\ JsRem(output.t, processorNode.totalPeriod) = <<TRUE, output.t>>
          /\ \A j \in 1..Len(processorNode.func) :
                (/\ processorNode.func[j].kind = "note"
                 /\ StartCursor(processorNode.func, j) >= processorNode.totalPeriod)
                    => output.note # NoteOfSeg(processorNode.func, j)

\* the last sample of a period of a processor whose second note starts at or beyond
\* totalPeriod: the first note sounds, the accumulator wraps
C14_Witness ==
    /\ RenderedLast
    /\ processorNode.totalPeriod > 0
    /\ output.t = processorNode.totalPeriod - 1
    /\ output.wrapped
    /\ \E j \in 2..Len(processorNode.func) :
          /\ processorNode.func[j].kind = "note"
          /\ StartCursor(processorNode.func, j) >= processorNode.totalPeriod
    /\ output.note = 1

====
